---- MODULE Spec2Model ----
(***************************************************************************)
(* Model of getplanes.py: the monitor-mode supervisor (main) with its      *)
(* pickle-backed airframe counter, the table collation                     *)
(* (build_table_index), the purchase scheduling loops, and the             *)
(* saturation-mode workers (saturation_attack / launch_agent).             *)
(*                                                                         *)
(* The browser, the remote site and the spreadsheet are the environment:   *)
(* every call into them either returns or raises, and what they return     *)
(* (offered airframes, lease tables, spreadsheet rows) is drawn from       *)
(* bounded sets.                                                           *)
(***************************************************************************)
EXTENDS Integers, Sequences, FiniteSets, TLC

(* ------------------------------ bounds --------------------------------- *)
\* largest "Maximum Airframes" a spreadsheet row carries
MaxQuota == 2
\* largest "Hours flown" a lease row carries; "Maximum Hours" ranges one above
MaxHours == 1
\* most data rows of one lease page
MaxRows == 2
\* most pages of one filtered lease listing
MaxPages == 2
\* most rows of the spreadsheet
MaxRules == 1
\* most BrowserAgent objects constructed in one process lifetime
MaxSessions == 2
\* most rows of the spreadsheet in saturation mode (one task each)
MaxTasks == 2

(* --------------------------- program constants -------------------------- *)
\* ThreadPoolExecutor(max_workers=10)
max_workers == 10

\* the file main() reads at startup
LoadFile == "count.pickle"
\* the file main() writes after every purchase
StoreFile == "filename.pickle"
Files == {LoadFile, StoreFile}

(* ------------------------------- values --------------------------------- *)
AircraftTypes == {"A320", "B737"}
\* a pickle file: whether it exists and the mapping it holds
NoFile == [exists |-> FALSE, data |-> [t \in AircraftTypes |-> 0]]
File(count) == [exists |-> TRUE, data |-> count]
NoFilter == "none"

\* collections.defaultdict(int): every key reads as 0 until incremented
EmptyCount == [t \in AircraftTypes |-> 0]

\* one spreadsheet row: "Aircraft Type", "Maximum Airframes", "Maximum Hours"
Rules ==
    [type : AircraftTypes, maxq : 0..MaxQuota, maxh : 0..(MaxHours + 1)]

RECURSIVE SeqsUpTo(_, _)
\* all sequences over S of length 0..n
SeqsUpTo(S, n) ==
    IF n = 0 THEN {<<>>}
    ELSE LET shorter == SeqsUpTo(S, n - 1)
         IN  shorter \cup
             {Append(s, x) : s \in {q \in shorter : Len(q) = n - 1}, x \in S}

\* what SheetsHandler.get_spreadsheet can return
Feeds == SeqsUpTo(Rules, MaxRules)

\* what saturation_attack passes on of a row: the type and the quota
Tasks == [type : AircraftTypes, maxq : 0..MaxQuota]

\* stands for any "Hours flown" cell that astype(int) rejects (text, NaN)
NonNumeric == -1

\* what read_html can put into a "Hours flown" cell
Cells == (0..MaxHours) \cup {NonNumeric}

\* what LeaseStrainer.get_table can return for one page: the "Hours flown"
\* column of the data rows (header consumed, trailing pager row dropped)
PageTables == SeqsUpTo(Cells, MaxRows)

\* a filtered listing of the site: one table per page, in page order
TableLists == SeqsUpTo(PageTables, MaxPages) \ {<<>>}

(* --------------------------- pure functions ----------------------------- *)
\* [itertools.repeat(i, len(x)) for i, x in enumerate(dfs)] for one page,
\* joined with the page's own 0-based row index (df.index after read_html)
PageRows(i, page) ==
    [r \in 1..Len(page) |-> [pagenum |-> i, idx |-> r - 1, hours |-> page[r]]]

RECURSIVE ConcatFrom(_, _)
ConcatFrom(dfs, k) ==
    IF k > Len(dfs) THEN <<>>
    ELSE PageRows(k - 1, dfs[k]) \o ConcatFrom(dfs, k + 1)

\* mutant of build_table_index: enumerate(dfs, 1)
build_table_index_from1(dfs) ==
    [n \in 1..Len(ConcatFrom(dfs, 1)) |->
        [ConcatFrom(dfs, 1)[n] EXCEPT !.pagenum = @ + 1]]

\* build_table_index: pd.concat(dfs) indexed by (pagenum, row index)
build_table_index(dfs) == ConcatFrom(dfs, 1)

\* df["Hours flown"].astype(int) raises ValueError
Malformed(dfs) ==
    \E p \in 1..Len(dfs) : \E r \in 1..Len(dfs[p]) : dfs[p][r] = NonNumeric

\* mutant of Links: the pager links every page, the one shown included
Links_all(n, cur) == [k \in 1..n |-> k]

\* navbar.find_elements(By.TAG_NAME, "a") on page cur of a listing of n pages,
\* as the page each link leads to. The pager is the last row of the table; it
\* links every page but the one shown, which is what get_leases and
\* _goto_page rely on: a page is extracted before any link is clicked, and a
\* pager without links means a single page, the one shown.
Links(n, cur) == [k \in 1..(n - 1) |-> IF k < cur THEN k ELSE k + 1]

RECURSIVE ClickFrom(_, _, _, _)
\* the for loop of get_leases from index idx on: the navbar is found anew on
\* the page shown, its idx-th link clicked and the page it leads to extracted
ClickFrom(n, cur, idx, len) ==
    IF idx >= len THEN <<>>
    ELSE <<Links(n, cur)[idx + 1]>>
            \o ClickFrom(n, Links(n, cur)[idx + 1], idx + 1, len)

\* the pages get_leases extracts from a filtered listing of n pages, in order:
\* the page shown after the filter click, then one page per link counted there
Visited(n) == <<1>> \o ClickFrom(n, 1, 0, Len(Links(n, 1)))

\* _goto_page(pagenum) on page cur of a listing of n pages: the page shown
\* afterwards; 0 when links[pagenum - 1] raises IndexError
GotoPage(n, cur, pagenum) ==
    IF Len(Links(n, cur)) = 0 THEN cur
    ELSE IF pagenum - 1 \in 0..(Len(Links(n, cur)) - 1)
    THEN Links(n, cur)[pagenum]
    ELSE IF pagenum = 0 THEN Links(n, cur)[Len(Links(n, cur))]
    ELSE 0

\* df["Hours flown"] < int(row["Maximum Hours"])
Eligible(hours, maxh) == hours < maxh

\* df = df[df["Hours flown"] < maxh]: boolean-mask selection keeps order
FilterHours(df, maxh) == SelectSeq(df, LAMBDA row : Eligible(row.hours, maxh))

\* the bijections of 1..n
Perms(n) ==
    {p \in [1..n -> 1..n] : \A a, b \in 1..n : a # b => p[a] # p[b]}

\* df.sort_values("Hours flown"): the default kind is quicksort, which is
\* not stable, so rows of equal hours may come out in any order
SortOutcomes(df) ==
    {[n \in 1..Len(df) |-> df[p[n]]] : p \in
        {q \in Perms(Len(df)) :
            \A a, b \in 1..Len(df) : a < b => df[q[a]].hours <= df[q[b]].hours}}

\* mutant of QuotaOpen: <= in place of <
QuotaOpen_le(count, maxq) == count <= maxq

\* airframe_count[row["Aircraft Type"]] < int(row["Maximum Airframes"])
QuotaOpen(count, maxq) == count < maxq

\* airframe_count[row["Aircraft Type"]] += 1
Increment(count, type) == [count EXCEPT ![type] = @ + 1]

\* mutant of NotFound: the membership test never reports absence
NotFound_never(airframe, available) == FALSE

\* airframe not in available_airframes.keys()
NotFound(airframe, available) == airframe \notin available

(* ------------------------------- state ---------------------------------- *)
VARIABLES
    mode,            \* args.mode: "monitor" or "saturation"
    pc,              \* where main() / saturation_attack() stands
    disk,            \* the pickle files of the working directory
    airframe_count,  \* main(): the in-memory counter mapping
    desired_leases,  \* main(): the spreadsheet rows read last
    i,               \* main(): position of the for loop over desired_leases
    tables,          \* main(): what get_leases returned last
    df,              \* main(): the dataframe the scheduler works on
    j,               \* main(): position of the for loop over df.iterrows()
    driver,          \* main(): the BrowserAgent in use (0: none yet)
    nsessions,       \* BrowserAgent objects constructed in this lifetime
    sess,            \* each BrowserAgent's browser: status, applied filter,
                     \* page shown and pages of the listing shown
    agents,          \* saturation mode: one launch_agent frame per task
    calls,           \* history: purchase_aircraft calls of the current rule
    entry,           \* history: the rule and its counter when the scheduler was entered
    ev               \* history: the call made last and how it ended

vars ==
    <<mode, pc, disk, airframe_count, desired_leases, i, tables, df, j, driver,
      nsessions, sess, agents, calls, entry, ev>>

\* found: for a filter call, whether the type was among the offered options;
\* more: for a purchase call, whether a further row of df was waiting;
\* landed: for a purchase call that returned, the page whose link it activated
Ev(op, ret, who, found, more) ==
    [op |-> op, ret |-> ret, who |-> who, found |-> found, more |-> more,
     landed |-> 0]

\* ready: login_workflow has returned on this object; npages is 0 while the
\* listing shown is one the program has not paged through
NoSession ==
    [status |-> "none", filter |-> NoFilter, page |-> 0, npages |-> 0,
     ready |-> FALSE]

\* no rule is being scheduled
NoEntry ==
    [type |-> "none", count |-> 0, maxq |-> 0, maxh |-> 0, links |-> 0,
     visited |-> <<>>]

\* pickle.load(handle) when count.pickle is a file, else defaultdict(int)
LoadCount(files) ==
    IF files[LoadFile].exists THEN files[LoadFile].data ELSE EmptyCount

\* mutant of DumpCount: the dump is left out
DumpCount_skip(files, count) == files

\* with open("filename.pickle", "wb"): pickle.dump(airframe_count, ...)
DumpCount(files, count) == [files EXCEPT ![StoreFile] = File(count)]

\* mutant of AfterExcept: the counter is loaded inside the while True loop
AfterExcept_reload(count) == LoadCount(disk)

\* except Exception: continue -- airframe_count lives outside the loop
AfterExcept(count) == count

\* the row of the spreadsheet the for loop stands on
row == desired_leases[i]

\* the first run: neither pickle file exists yet
Init ==
    /\ mode \in {"monitor", "saturation"}
    /\ pc = "start"
    /\ disk = [f \in Files |-> NoFile]
    /\ airframe_count = EmptyCount
    /\ desired_leases = <<>>
    /\ i = 1
    /\ tables = <<>>
    /\ df = <<>>
    /\ j = 1
    /\ driver = 0
    /\ nsessions = 0
    /\ sess = [s \in 1..MaxSessions |-> NoSession]
    /\ agents = <<>>
    /\ calls = <<>>
    /\ entry = NoEntry
    /\ ev = Ev("none", "none", 0, FALSE, FALSE)

(* --------------------------- the browser -------------------------------- *)
\* a call into the browser that raised: the browser may be gone for good
\* (status crashed) or merely be on an unexpected screen
Raised(s) ==
    {[sess EXCEPT ![s].status = st, ![s].page = 0, ![s].npages = 0] :
        st \in {sess[s].status, "crashed"}}

\* login_workflow: _authenticate_airsim, _trigger_popup, goto_leases, in this
\* order; the status each of them leaves the browser in when it returns
login_workflow == <<"authenticated", "popup", "leases">>

\* login_workflow raised in its k-th call: the browser stands where the calls
\* before left it, or is gone for good
LoginRaised(s) ==
    {[sess EXCEPT ![s].status = st, ![s].page = 0, ![s].npages = 0] :
        st \in {"crashed"} \cup
               {IF k = 1 THEN sess[s].status ELSE login_workflow[k - 1] :
                    k \in 1..Len(login_workflow)}}

\* goto_leases: the two clicks land on the first page of the unfiltered
\* leases listing
OnLeases(s) ==
    [sess EXCEPT ![s].status = "leases", ![s].filter = NoFilter,
                 ![s].page = 1, ![s].npages = 0]

\* select_by_value + click on btnApplyFilter: the first page of the listing
\* of that type
Filtered(s, airframe) == [sess EXCEPT ![s].filter = airframe, ![s].page = 1]

\* get_leases has clicked through a filtered listing of n pages
Collected(s, airframe, n) ==
    [sess EXCEPT ![s].filter = airframe, ![s].page = Visited(n)[Len(Visited(n))],
                 ![s].npages = n]

\* what a get_leases call that raised leaves behind: the filter may or may
\* not have been applied before the failing step
RaisedInFilter(s, airframe) ==
    Raised(s) \cup {[b EXCEPT ![s].filter = airframe] : b \in Raised(s)}

\* driver = BrowserAgent(): a new browser; the object driver was bound to
\* before is out of the program's reach, whatever state its browser is in
Constructed(old) ==
    [s \in 1..MaxSessions |->
        IF s = nsessions + 1 THEN [NoSession EXCEPT !.status = "new"]
        ELSE IF s = old THEN [NoSession EXCEPT !.status = "unreferenced"]
        ELSE sess[s]]

(* ----------------------------- monitor mode ------------------------------ *)
\* The locals of main() are kept only while a later statement can read them:
\* desired_leases until it is read again, tables until df is built from it,
\* df, j and the history of the rule until the next rule (or the sleep) begins.

\* lines 305-309
Load ==
    /\ mode = "monitor" /\ pc = "start"
    /\ airframe_count' = LoadCount(disk)
    /\ pc' = "new_session"
    /\ ev' = Ev("load", "ok", 0, FALSE, FALSE)
    /\ UNCHANGED <<mode, disk, desired_leases, i, tables, df, j, driver,
                   nsessions, sess, agents, calls, entry>>

\* the except clause of main(): log and go round the while True loop; of the
\* locals only airframe_count and driver are read again
MainExcept ==
    /\ pc' = "new_session"
    /\ airframe_count' = AfterExcept(airframe_count)
    /\ desired_leases' = <<>> /\ i' = 1 /\ tables' = <<>> /\ df' = <<>> /\ j' = 1
    /\ calls' = <<>> /\ entry' = NoEntry
    /\ UNCHANGED <<mode, disk, driver, nsessions, agents>>

\* line 314: driver = BrowserAgent()
NewSession ==
    /\ mode = "monitor" /\ pc = "new_session"
    /\ nsessions < MaxSessions
    /\ nsessions' = nsessions + 1
    /\ driver' = nsessions + 1
    /\ sess' = Constructed(driver)
    /\ pc' = "login"
    /\ ev' = Ev("construct", "ok", 0, FALSE, FALSE)
    /\ UNCHANGED <<mode, disk, airframe_count, desired_leases, i, tables, df,
                   j, agents, calls, entry>>

\* line 314: BrowserAgent() raises (the browser does not start); no object
\* is bound to driver
NewSessionRaises ==
    /\ mode = "monitor" /\ pc = "new_session"
    /\ ev' = Ev("construct", "raise", 0, FALSE, FALSE)
    /\ UNCHANGED sess
    /\ MainExcept

\* line 316: driver.login_workflow() returns
Login ==
    /\ mode = "monitor" /\ pc = "login"
    /\ sess[driver].status # "crashed"
    /\ OnLeases(driver)[driver].status = login_workflow[Len(login_workflow)]
    /\ sess' = [OnLeases(driver) EXCEPT ![driver].ready = TRUE]
    /\ pc' = "feed"
    /\ ev' = Ev("login", "ok", 0, FALSE, FALSE)
    /\ UNCHANGED <<mode, disk, airframe_count, desired_leases, i, tables, df,
                   j, driver, nsessions, agents, calls, entry>>

\* mutant of LoginRaises: the failure is logged and the loop goes on with the
\* same driver
LoginRaises_ignored ==
    /\ mode = "monitor" /\ pc = "login"
    /\ sess' \in LoginRaised(driver)
    /\ ev' = Ev("login", "raise", 0, FALSE, FALSE)
    /\ pc' = "feed"
    /\ UNCHANGED <<mode, disk, airframe_count, desired_leases, i, tables, df,
                   j, driver, nsessions, agents, calls, entry>>

\* line 316: driver.login_workflow() raises
LoginRaises ==
    /\ mode = "monitor" /\ pc = "login"
    /\ sess' \in LoginRaised(driver)
    /\ ev' = Ev("login", "raise", 0, FALSE, FALSE)
    /\ MainExcept

\* lines 321-322: the spreadsheet is read
ReadFeed ==
    /\ mode = "monitor" /\ pc = "feed"
    /\ \E feed \in Feeds : desired_leases' = feed
    /\ i' = 1
    /\ pc' = "rule"
    /\ ev' = Ev("feed", "ok", 0, FALSE, FALSE)
    /\ UNCHANGED <<mode, disk, airframe_count, tables, df, j, driver,
                   nsessions, sess, agents, calls, entry>>

\* lines 321-322: the spreadsheet read raises
ReadFeedRaises ==
    /\ mode = "monitor" /\ pc = "feed"
    /\ ev' = Ev("feed", "raise", 0, FALSE, FALSE)
    /\ UNCHANGED sess
    /\ MainExcept

\* line 330: driver.goto_leases() returns
GotoLeases ==
    /\ mode = "monitor" /\ pc = "rule" /\ i <= Len(desired_leases)
    /\ sess[driver].status # "crashed"
    /\ sess' = OnLeases(driver)
    /\ pc' = "get"
    /\ tables' = <<>> /\ df' = <<>> /\ j' = 1 /\ calls' = <<>> /\ entry' = NoEntry
    /\ ev' = Ev("goto_leases", "ok", 0, FALSE, FALSE)
    /\ UNCHANGED <<mode, disk, airframe_count, desired_leases, i, driver,
                   nsessions, agents>>

\* line 330: driver.goto_leases() raises
GotoLeasesRaises ==
    /\ mode = "monitor" /\ pc = "rule" /\ i <= Len(desired_leases)
    /\ sess' \in Raised(driver)
    /\ ev' = Ev("goto_leases", "raise", 0, FALSE, FALSE)
    /\ MainExcept

\* lines 332-335: tables = driver.get_leases(type); if not tables: continue;
\* df = build_table_index(tables)
GetLeases ==
    /\ mode = "monitor" /\ pc = "get"
    /\ sess[driver].status # "crashed"
    /\ \E available \in SUBSET AircraftTypes :
        IF NotFound(row.type, available)
        THEN \* return None; the caller continues with the next row
             /\ i' = i + 1
             /\ pc' = "rule"
             /\ ev' = Ev("get_leases", "none", 0, row.type \in available, FALSE)
             /\ UNCHANGED <<airframe_count, tables, df, j, sess, calls, entry>>
        ELSE IF row.type \in available
        THEN \* the option is selected, the filter applied, the pages of
             \* the listing (one table per page) clicked through and read
             /\ \E listing \in TableLists :
                LET got == [k \in 1..Len(Visited(Len(listing))) |->
                                listing[Visited(Len(listing))[k]]]
                IN
                 /\ sess' = Collected(driver, row.type, Len(listing))
                 /\ IF Malformed(got)
                    THEN \* line 299 raises inside build_table_index; nothing
                         \* between line 335 and the except of line 361 catches it
                         /\ pc' = "new_session"
                         /\ airframe_count' = AfterExcept(airframe_count)
                         /\ ev' = Ev("build_table_index", "raise", 0, TRUE, FALSE)
                         /\ i' = 1 /\ tables' = <<>> /\ df' = <<>> /\ j' = 1
                         /\ calls' = <<>> /\ entry' = NoEntry
                    ELSE /\ tables' = got
                         /\ df' = build_table_index(got)
                         /\ pc' = "while"
                         /\ entry' = [type |-> row.type,
                                       count |-> airframe_count[row.type],
                                       maxq |-> row.maxq, maxh |-> row.maxh,
                                       links |-> Len(Links(Len(listing), 1)),
                                       visited |-> Visited(Len(listing))]
                         /\ ev' = Ev("get_leases", "tables", 0, TRUE, FALSE)
                         /\ UNCHANGED <<airframe_count, i, j, calls>>
        ELSE \* available_airframes[airframe] raises KeyError
             /\ pc' = "new_session"
             /\ airframe_count' = AfterExcept(airframe_count)
             /\ ev' = Ev("get_leases", "raise", 0, FALSE, FALSE)
             /\ i' = 1 /\ tables' = <<>> /\ df' = <<>> /\ j' = 1
             /\ calls' = <<>> /\ entry' = NoEntry
             /\ UNCHANGED sess
    /\ desired_leases' = IF pc' = "new_session" THEN <<>> ELSE desired_leases
    /\ UNCHANGED <<mode, disk, driver, nsessions, agents>>

\* line 332: driver.get_leases raises (an element is missing, a wait times out)
GetLeasesRaises ==
    /\ mode = "monitor" /\ pc = "get"
    /\ sess' \in RaisedInFilter(driver, row.type)
    /\ ev' = Ev("get_leases", "raise", 0, TRUE, FALSE)
    /\ MainExcept

\* lines 336-345: the while test, the hours filter, the emptiness test and the
\* sort; leaving the while loop moves the for loop to the next spreadsheet row
Schedule ==
    /\ mode = "monitor" /\ pc = "while"
    /\ IF ~QuotaOpen(airframe_count[row.type], row.maxq)
       THEN /\ i' = i + 1 /\ pc' = "rule"
            /\ ev' = Ev("schedule", "quota", 0, FALSE, FALSE)
            /\ UNCHANGED <<df, j>>
       ELSE IF Len(FilterHours(df, row.maxh)) <= 0
       THEN /\ df' = FilterHours(df, row.maxh)
            /\ i' = i + 1 /\ pc' = "rule"
            /\ ev' = Ev("schedule", "empty", 0, FALSE, FALSE)
            /\ UNCHANGED j
       ELSE /\ df' \in SortOutcomes(FilterHours(df, row.maxh))
            /\ j' = 1
            /\ pc' = "for"
            /\ ev' = Ev("schedule", "sorted", 0, FALSE, FALSE)
            /\ UNCHANGED i
    /\ tables' = <<>>
    /\ UNCHANGED <<mode, disk, airframe_count, desired_leases, driver,
                   nsessions, sess, agents, calls, entry>>

\* the arguments of line 348: driver.purchase_aircraft(j[0] + 1, j[1] + 1)
PurchaseArgs(lease) == [pagenum |-> lease.pagenum + 1, rownum |-> lease.idx + 1]

\* one purchase_aircraft call as the history keeps it: the arguments, the row
\* they were computed from, the counter and the rule at the time of the call
Call(lease, ret) ==
    [pagenum |-> PurchaseArgs(lease).pagenum, rownum |-> PurchaseArgs(lease).rownum,
     page |-> lease.pagenum, idx |-> lease.idx, hours |-> lease.hours,
     before |-> airframe_count[row.type], maxq |-> row.maxq,
     maxh |-> row.maxh, ret |-> ret]

\* how many pages the listing shown by browser s has: the count get_leases
\* found while the filtered listing is still shown, any count for a listing
\* the program has not paged through
PagesShown(s) ==
    IF sess[s].npages > 0 THEN {sess[s].npages} ELSE 1..MaxPages

\* lines 347-358: purchase_aircraft goes to the page (lines 235-236; a failed
\* link lookup raises), activates the row link and returns, ending on the
\* unfiltered leases page (line 261); the counter is incremented and dumped
Purchase ==
    /\ mode = "monitor" /\ pc = "for"
    /\ sess[driver].status # "crashed"
    /\ \E n \in PagesShown(driver) :
        /\ GotoPage(n, sess[driver].page, PurchaseArgs(df[j]).pagenum) # 0
        /\ ev' = [Ev("purchase", "ok", 0, FALSE, j < Len(df)) EXCEPT
                    !.landed = GotoPage(n, sess[driver].page,
                                        PurchaseArgs(df[j]).pagenum)]
    /\ sess' = OnLeases(driver)
    /\ airframe_count' = Increment(airframe_count, row.type)
    /\ disk' = DumpCount(disk, airframe_count')
    /\ calls' = Append(calls, Call(df[j], "ok"))
    /\ j' = j + 1
    /\ pc' = IF j = Len(df) THEN "while" ELSE "for"
    /\ UNCHANGED <<mode, desired_leases, i, tables, df, driver, nsessions,
                   agents, entry>>

\* mutant of PurchaseRaises: a try/except around line 348 that logs and goes on
\* with the next row
PurchaseRaises_caught ==
    /\ mode = "monitor" /\ pc = "for"
    /\ sess' \in Raised(driver)
    /\ calls' = Append(calls, Call(df[j], "raise"))
    /\ ev' = Ev("purchase", "raise", 0, FALSE, j < Len(df))
    /\ j' = j + 1
    /\ pc' = IF j = Len(df) THEN "while" ELSE "for"
    /\ UNCHANGED <<mode, disk, airframe_count, desired_leases, i, tables, df,
                   driver, nsessions, agents, entry>>

\* line 348: purchase_aircraft raises; nothing in the loops catches it
PurchaseRaises ==
    /\ mode = "monitor" /\ pc = "for"
    /\ sess' \in Raised(driver)
    /\ ev' = Ev("purchase", "raise", 0, FALSE, j < Len(df))
    /\ MainExcept

\* line 359 and the tests of lines 319 and 327: after a pass over the rows the
\* thread sleeps; then either timer may have run out
Sleep ==
    /\ mode = "monitor" /\ pc = "rule" /\ i > Len(desired_leases)
    /\ \E next \in {"rule", "feed", "new_session"} :
        /\ pc' = next
        /\ desired_leases' = IF next = "rule" THEN desired_leases ELSE <<>>
    /\ i' = 1
    /\ tables' = <<>> /\ df' = <<>> /\ j' = 1 /\ calls' = <<>> /\ entry' = NoEntry
    /\ ev' = Ev("sleep", "ok", 0, FALSE, FALSE)
    /\ UNCHANGED <<mode, disk, airframe_count, driver, nsessions, sess, agents>>

\* the process is killed and started again: memory is lost, the files stay
Kill ==
    /\ mode = "monitor" /\ pc # "start"
    /\ pc' = "start"
    /\ airframe_count' = EmptyCount
    /\ desired_leases' = <<>> /\ i' = 1 /\ tables' = <<>> /\ df' = <<>> /\ j' = 1
    /\ driver' = 0 /\ nsessions' = 0
    /\ sess' = [s \in 1..MaxSessions |-> NoSession]
    /\ calls' = <<>> /\ entry' = NoEntry
    /\ ev' = Ev("kill", "ok", 0, FALSE, FALSE)
    /\ UNCHANGED <<mode, disk, agents>>

Monitor ==
    \/ Load \/ NewSession \/ NewSessionRaises \/ Login \/ LoginRaises \/ ReadFeed \/ ReadFeedRaises
    \/ GotoLeases \/ GotoLeasesRaises \/ GetLeases \/ GetLeasesRaises
    \/ Schedule \/ Purchase \/ PurchaseRaises \/ Sleep \/ Kill

(* ---------------------------- saturation mode ---------------------------- *)
\* the frame of one launch_agent(aircraft_type, max_airframes) call; page is
\* the local "tables", kept from line 377 to the end of the pass; bought is
\* history: the purchase calls of this worker that returned
Agent(task) ==
    [aircraft_type |-> task.type, max_airframes |-> task.maxq, pc |-> "queued",
     purchases |-> 0, driver |-> 0, page |-> <<>>, bought |-> 0]

Workers == 1..Len(agents)

\* mutant of Running: the executor does not count the threads in use
Running_none == {}

\* the tasks a pool thread is running
Running == {w \in Workers : agents[w].pc \notin {"queued", "done"}}

\* lines 396-404: the spreadsheet is read once and one task submitted per row,
\* for a spreadsheet that is one of feeds
SubmitFrom(feeds) ==
    /\ mode = "saturation" /\ pc = "start"
    /\ \E feed \in feeds :
        /\ desired_leases' = feed
        /\ agents' = [k \in 1..Len(feed) |-> Agent(feed[k])]
    /\ pc' = "pool"
    /\ ev' = Ev("feed", "ok", 0, FALSE, FALSE)
    /\ UNCHANGED <<disk, mode, airframe_count, i, tables, df,
                   j, driver, nsessions, sess, calls, entry>>

\* a spreadsheet of up to MaxTasks rows
Submit == SubmitFrom(SeqsUpTo(Tasks, MaxTasks))

\* spreadsheets of one row more than the pool has threads: a first row with a
\* quota of one and rows whose quota is zero
PoolFeeds ==
    {[k \in 1..(max_workers + 1) |->
        [type |-> t, maxq |-> IF k = 1 THEN 1 ELSE 0]] : t \in {"A320"}}

\* a spreadsheet that outnumbers the pool
SubmitPool == SubmitFrom(PoolFeeds)

\* lines 396-397: the spreadsheet read raises and the process ends
SubmitRaises ==
    /\ mode = "saturation" /\ pc = "start"
    /\ pc' = "exit"
    /\ ev' = Ev("feed", "raise", 0, FALSE, FALSE)
    /\ UNCHANGED <<disk, mode, airframe_count, desired_leases, i, tables, df,
                   j, driver, nsessions, sess, agents, calls, entry>>

SatFrame ==
    UNCHANGED <<disk, mode, pc, airframe_count, desired_leases, i, tables, df,
                j, driver, calls, entry>>

\* a free thread of the pool takes a submitted task: the executor's work
\* queue hands the tasks out in the order of submission
AgentStart ==
    \E w \in Workers :
        /\ mode = "saturation" /\ agents[w].pc = "queued"
        /\ \A v \in Workers : v < w => agents[v].pc # "queued"
        /\ Cardinality(Running) < max_workers
        /\ agents' = [agents EXCEPT ![w].pc = "outer"]
        /\ ev' = Ev("start", "ok", w, FALSE, FALSE)
        /\ UNCHANGED <<nsessions, sess>>
        /\ SatFrame

\* line 369: the outer while test fails and launch_agent returns
AgentDone ==
    \E w \in Workers :
        /\ mode = "saturation" /\ agents[w].pc = "outer"
        /\ ~QuotaOpen(agents[w].purchases, agents[w].max_airframes)
        /\ agents' = [agents EXCEPT ![w].pc = "done"]
        /\ ev' = Ev("return", "ok", w, FALSE, FALSE)
        /\ UNCHANGED <<nsessions, sess>>
        /\ SatFrame

\* lines 369-371: the outer while test holds and driver = BrowserAgent()
AgentNewSession ==
    \E w \in Workers :
        /\ mode = "saturation" /\ agents[w].pc = "outer"
        /\ QuotaOpen(agents[w].purchases, agents[w].max_airframes)
        /\ nsessions < MaxSessions
        /\ nsessions' = nsessions + 1
        /\ sess' = Constructed(agents[w].driver)
        /\ agents' = [agents EXCEPT ![w].driver = nsessions + 1, ![w].pc = "login"]
        /\ ev' = Ev("construct", "ok", w, FALSE, FALSE)
        /\ SatFrame

\* lines 371, 389-391: BrowserAgent() raises; the outer except clause
\* continues the outer loop
AgentNewSessionRaises ==
    \E w \in Workers :
        /\ mode = "saturation" /\ agents[w].pc = "outer"
        /\ QuotaOpen(agents[w].purchases, agents[w].max_airframes)
        /\ ev' = Ev("construct", "raise", w, FALSE, FALSE)
        /\ UNCHANGED <<agents, nsessions, sess>>
        /\ SatFrame

\* line 372: driver.login_workflow() returns
AgentLogin ==
    \E w \in Workers :
        /\ mode = "saturation" /\ agents[w].pc = "login"
        /\ sess[agents[w].driver].status # "crashed"
        /\ sess' = [OnLeases(agents[w].driver) EXCEPT
                        ![agents[w].driver].ready = TRUE]
        /\ agents' = [agents EXCEPT ![w].pc = "inner"]
        /\ ev' = Ev("login", "ok", w, FALSE, FALSE)
        /\ UNCHANGED nsessions
        /\ SatFrame

\* lines 372, 389-391: login_workflow raises; the outer except clause
\* continues the outer loop
AgentLoginRaises ==
    \E w \in Workers :
        /\ mode = "saturation" /\ agents[w].pc = "login"
        /\ sess' \in LoginRaised(agents[w].driver)
        /\ agents' = [agents EXCEPT ![w].pc = "outer"]
        /\ ev' = Ev("login", "raise", w, FALSE, FALSE)
        /\ UNCHANGED nsessions
        /\ SatFrame

\* line 373: the inner while test fails; control returns to the outer test
AgentQuotaMet ==
    \E w \in Workers :
        /\ mode = "saturation" /\ agents[w].pc = "inner"
        /\ ~QuotaOpen(agents[w].purchases, agents[w].max_airframes)
        /\ agents' = [agents EXCEPT ![w].pc = "outer"]
        /\ ev' = Ev("inner", "quota", w, FALSE, FALSE)
        /\ UNCHANGED <<nsessions, sess>>
        /\ SatFrame

\* lines 373-376: the inner while test holds and driver.goto_leases() returns
AgentGotoLeases ==
    \E w \in Workers :
        /\ mode = "saturation" /\ agents[w].pc = "inner"
        /\ QuotaOpen(agents[w].purchases, agents[w].max_airframes)
        /\ sess[agents[w].driver].status # "crashed"
        /\ sess' = OnLeases(agents[w].driver)
        /\ agents' = [agents EXCEPT ![w].pc = "get", ![w].page = <<>>]
        /\ ev' = Ev("goto_leases", "ok", w, FALSE, FALSE)
        /\ UNCHANGED nsessions
        /\ SatFrame

\* the inner except clause (lines 384-388): log and continue the inner loop,
\* with the same driver
AgentExcept(w) == [agents EXCEPT ![w].pc = "inner", ![w].page = <<>>]

\* lines 376, 384-388: goto_leases raises
AgentGotoLeasesRaises ==
    \E w \in Workers :
        /\ mode = "saturation" /\ agents[w].pc = "inner"
        /\ QuotaOpen(agents[w].purchases, agents[w].max_airframes)
        /\ sess' \in Raised(agents[w].driver)
        /\ agents' = AgentExcept(w)
        /\ ev' = Ev("goto_leases", "raise", w, FALSE, FALSE)
        /\ UNCHANGED nsessions
        /\ SatFrame

\* lines 377-379: tables = driver.get_lease_page(aircraft_type); a None makes
\* the pass end, a dataframe (of any length) goes on to the purchase
AgentGetPage ==
    \E w \in Workers :
        /\ mode = "saturation" /\ agents[w].pc = "get"
        /\ sess[agents[w].driver].status # "crashed"
        /\ \E available \in SUBSET AircraftTypes :
            IF NotFound(agents[w].aircraft_type, available)
            THEN /\ agents' = [agents EXCEPT ![w].pc = "inner"]
                 /\ ev' = Ev("get_lease_page", "none", w,
                             agents[w].aircraft_type \in available, FALSE)
                 /\ UNCHANGED sess
            ELSE IF agents[w].aircraft_type \in available
            THEN /\ sess' = Filtered(agents[w].driver, agents[w].aircraft_type)
                 /\ \E got \in PageTables :
                     agents' = [agents EXCEPT ![w].pc = "buy", ![w].page = got]
                 /\ ev' = Ev("get_lease_page", "tables", w, TRUE, FALSE)
            ELSE \* available_airframes[airframe] raises KeyError
                 /\ agents' = AgentExcept(w)
                 /\ ev' = Ev("get_lease_page", "raise", w, FALSE, FALSE)
                 /\ UNCHANGED sess
        /\ UNCHANGED nsessions
        /\ SatFrame

\* lines 377, 384-388: get_lease_page raises
AgentGetPageRaises ==
    \E w \in Workers :
        /\ mode = "saturation" /\ agents[w].pc = "get"
        /\ sess' \in RaisedInFilter(agents[w].driver, agents[w].aircraft_type)
        /\ agents' = AgentExcept(w)
        /\ ev' = Ev("get_lease_page", "raise", w, TRUE, FALSE)
        /\ UNCHANGED nsessions
        /\ SatFrame

\* mutant of AgentPurchase: the purchases += 1 of line 382 is left out
AgentPurchase_nocount ==
    \E w \in Workers :
        /\ mode = "saturation" /\ agents[w].pc = "buy"
        /\ sess[agents[w].driver].status # "crashed"
        /\ Len(agents[w].page) >= 1
        /\ sess' = OnLeases(agents[w].driver)
        /\ agents' = [agents EXCEPT ![w].pc = "inner", ![w].page = <<>>,
                                     ![w].bought = @ + 1]
        /\ ev' = Ev("purchase", "ok", w, FALSE, FALSE)
        /\ UNCHANGED nsessions
        /\ SatFrame

\* lines 381-383: driver.purchase_aircraft(-1, 1) returns; purchases += 1.
\* The call activates the first link of the table (line 241) and waits for
\* the quote button (lines 245-247): it returns only when the table has a
\* data row whose link leads there; on a table without data rows the
\* indexing or the wait raises.
AgentPurchase ==
    \E w \in Workers :
        /\ mode = "saturation" /\ agents[w].pc = "buy"
        /\ sess[agents[w].driver].status # "crashed"
        /\ Len(agents[w].page) >= 1
        /\ sess' = OnLeases(agents[w].driver)
        /\ agents' = [agents EXCEPT ![w].purchases = @ + 1, ![w].pc = "inner",
                                     ![w].page = <<>>, ![w].bought = @ + 1]
        /\ ev' = Ev("purchase", "ok", w, FALSE, FALSE)
        /\ UNCHANGED nsessions
        /\ SatFrame

\* lines 381, 384-388: purchase_aircraft raises
AgentPurchaseRaises ==
    \E w \in Workers :
        /\ mode = "saturation" /\ agents[w].pc = "buy"
        /\ sess' \in Raised(agents[w].driver)
        /\ agents' = AgentExcept(w)
        /\ ev' = Ev("purchase", "raise", w, FALSE, FALSE)
        /\ UNCHANGED nsessions
        /\ SatFrame

Saturation ==
    \/ Submit \/ SubmitRaises
    \/ AgentStart \/ AgentDone \/ AgentNewSession \/ AgentNewSessionRaises
    \/ AgentLogin \/ AgentLoginRaises \/ AgentQuotaMet
    \/ AgentGotoLeases \/ AgentGotoLeasesRaises
    \/ AgentGetPage \/ AgentGetPageRaises
    \/ AgentPurchase \/ AgentPurchaseRaises

Next == Monitor \/ Saturation

Spec == Init /\ [][Next]_vars

\* the process started without --mode saturation
InitMonitor == Init /\ mode = "monitor"
SpecMonitor == InitMonitor /\ [][Monitor]_vars

\* the process started with --mode saturation
InitSaturation == Init /\ mode = "saturation"
SpecSaturation == InitSaturation /\ [][Saturation]_vars

\* saturation mode on a spreadsheet that outnumbers the pool
Pool ==
    \/ SubmitPool \/ SubmitRaises
    \/ AgentStart \/ AgentDone \/ AgentNewSession \/ AgentNewSessionRaises
    \/ AgentLogin \/ AgentLoginRaises \/ AgentQuotaMet
    \/ AgentGotoLeases \/ AgentGotoLeasesRaises
    \/ AgentGetPage \/ AgentGetPageRaises
    \/ AgentPurchase \/ AgentPurchaseRaises

SpecPool == InitSaturation /\ [][Pool]_vars

\* the steps of the pool thread that runs task w
AgentStep(w) == Saturation /\ ev'.who = w

\* saturation mode with the scheduling the runtime gives: the main thread
\* runs, and so does every pool thread that has a statement to execute
SpecSaturationFair ==
    /\ InitSaturation /\ [][Saturation]_vars
    /\ WF_vars(Submit \/ SubmitRaises)
    /\ \A w \in 1..MaxTasks : WF_vars(AgentStep(w))

(* ------------------------------ properties ------------------------------- *)
Max(a, b) == IF a >= b THEN a ELSE b

\* C1: the counter mapping loaded at startup is the mapping the purchases of
\* the earlier lifetime stored: after N purchases of a type, a kill and a
\* restart, the loaded count of the type is N.
C1_LoadedIsStored ==
    (ev.op = "load" /\ disk[StoreFile].exists)
        => airframe_count = disk[StoreFile].data

\* C2: every purchase call of a rule is made while the counter is below the
\* rule's quota, so the counter never passes the larger of the quota and the
\* value it had when the rule was scheduled.
C2_PurchaseOnlyBelowQuota ==
    \A k \in 1..Len(calls) :
        /\ calls[k].before < calls[k].maxq
        /\ calls[k].ret = "ok"
            => calls[k].before + 1 <= Max(entry.maxq, entry.count)

\* C3: a rule entered with the counter equal to its quota makes no purchase
\* call in that iteration, whatever the table holds.
C3_QuotaStop ==
    (mode = "monitor" /\ entry.type # "none" /\ entry.count = entry.maxq)
        => calls = <<>>

\* C3 witness: the scheduler left a rule whose counter equalled its (positive)
\* quota at entry, with an eligible row in the table and no call made.
C3_Witness ==
    /\ ev.op = "schedule" /\ ev.ret = "quota"
    /\ entry.count = entry.maxq /\ entry.maxq > 0
    /\ \E n \in 1..Len(df) : df[n].hours < entry.maxh
    /\ calls = <<>>

C5_SupervisorRestart ==
    [][/\ (mode = "monitor" /\ ev'.ret = "raise")
            => /\ airframe_count' = airframe_count
               /\ pc' = "new_session"
               /\ nsessions' = nsessions /\ driver' = driver
       /\ (mode = "monitor" /\ pc = "new_session" /\ ev'.op # "kill")
            => /\ ev'.op = "construct"
               /\ airframe_count' = airframe_count
               /\ ev'.ret = "ok"
                    => /\ nsessions' = nsessions + 1
                       /\ driver' = nsessions'
                       /\ sess'[driver'].status = "new"
                       /\ pc' = "login"
       /\ (mode = "monitor" /\ pc = "login" /\ ev'.op # "kill")
            => /\ ev'.op = "login"
               /\ driver' = driver /\ nsessions' = nsessions
               /\ airframe_count' = airframe_count]_vars

\* C5 witness: goto_leases or get_leases raised in the middle of the loop,
\* with purchases already counted and a session still to be constructed.
C5_Witness ==
    /\ mode = "monitor" /\ pc = "new_session"
    /\ ev.op \in {"goto_leases", "get_leases"} /\ ev.ret = "raise"
    /\ airframe_count # EmptyCount
    /\ nsessions < MaxSessions

\* C6: a call that raises inside a worker's inner loop sends the worker back
\* to the construction of a new session, and no pass is started on a session
\* that has crashed.
C6_WorkerRestartsSession ==
    [][\A w \in Workers :
        /\ (agents[w].pc \in {"inner", "get", "buy"}
                /\ ev'.who = w /\ ev'.ret = "raise")
            => agents'[w].pc = "outer"
        /\ (agents[w].pc = "inner" /\ sess[agents[w].driver].status = "crashed")
            => ~(ev'.who = w /\ ev'.op = "goto_leases")]_vars

RECURSIVE Offset(_, _)
\* the number of rows on the pages before page p (1-based) of a list of pages
Offset(dfs, p) == IF p <= 1 THEN 0 ELSE Offset(dfs, p - 1) + Len(dfs[p - 1])

\* C8: the collected table has one row per row of the page tables, in page
\* order and within a page in row order, each carrying its 0-based page
\* number and its 0-based row index within the page.
C8_CollectedTable ==
    (ev.op = "get_leases" /\ ev.ret = "tables")
        => /\ Len(df) = Offset(tables, Len(tables) + 1)
           /\ \A p \in 1..Len(tables) : \A r \in 1..Len(tables[p]) :
                df[Offset(tables, p) + r] =
                    [pagenum |-> p - 1, idx |-> r - 1, hours |-> tables[p][r]]

\* C8 witness: a table was collected from two pages, the first of two rows.
C8_Witness ==
    /\ ev.op = "get_leases" /\ ev.ret = "tables"
    /\ Len(tables) = 2 /\ Len(tables[1]) = 2 /\ Len(tables[2]) >= 1
    /\ Len(df) >= 3

\* a comes before b in ascending hours, ties in (page, row index) order
Precedes(a, b) ==
    \/ a.hours < b.hours
    \/ /\ a.hours = b.hours
       /\ \/ a.page < b.page
          \/ a.page = b.page /\ a.idx < b.idx

\* C9: the purchase calls of one rule on one collected table go only to rows
\* with hours below the rule's maximum, in ascending hours order, rows of
\* equal hours in their original (page, row index) order.
C9_AttemptOrder ==
    \A k \in 1..Len(calls) :
        /\ calls[k].hours < calls[k].maxh
        /\ k > 1 => Precedes(calls[k - 1], calls[k])

\* C10: within a process lifetime the counter of a type never goes down; it
\* changes only in a step where a purchase returned, by exactly one, for the
\* type of the rule, and that step leaves the whole mapping in the file.
C10_CounterMonotone ==
    [][(mode = "monitor" /\ ev'.op # "kill")
        => /\ \A t \in AircraftTypes :
                /\ airframe_count'[t] >= airframe_count[t]
                /\ airframe_count'[t] # airframe_count[t]
                    => /\ ev'.op = "purchase" /\ ev'.ret = "ok"
                       /\ t = row.type
                       /\ airframe_count'[t] = airframe_count[t] + 1
           /\ (ev'.op = "purchase" /\ ev'.ret = "ok")
                => /\ airframe_count'[row.type] = airframe_count[row.type] + 1
                   /\ disk'[StoreFile] = File(airframe_count')]_vars

\* C10 witness: a purchase has just been counted and stored on the second
\* session of the lifetime, the counter of its type standing at two or more.
C10_Witness ==
    /\ mode = "monitor" /\ ev.op = "purchase" /\ ev.ret = "ok"
    /\ nsessions >= 2
    /\ airframe_count[entry.type] >= 2
    /\ disk[StoreFile] = File(airframe_count)

(* ------------------------- saturation workers --------------------------- *)
\* worker w is below its quota
Open(w) == w \in Workers /\ agents[w].purchases < agents[w].max_airframes

\* the call made last is a purchase of worker w that returned
Bought(w) == ev.op = "purchase" /\ ev.ret = "ok" /\ ev.who = w

\* every task of the pool has returned (or none was submitted)
AllDone == pc # "start" /\ \A w \in Workers : agents[w].pc = "done"

\* C11: a worker's counter goes up by exactly one in the step where its
\* purchase returns and in no other step; a purchase call ends the pass; the
\* counter never passes max_airframes; the worker has returned only with the
\* counter at max_airframes, and a worker whose counter is at max_airframes
\* does nothing but leave its loops (with max_airframes = 0 it never
\* constructs a session); and if, while a worker is below its quota, a
\* purchase of its eventually returns, every worker eventually returns.
C11_WorkerQuota ==
    /\ [][\A w \in Workers : w \in 1..Len(agents') =>
            /\ agents'[w].purchases # agents[w].purchases
                => /\ ev'.op = "purchase" /\ ev'.ret = "ok" /\ ev'.who = w
                   /\ agents'[w].purchases = agents[w].purchases + 1
            /\ (ev'.op = "purchase" /\ ev'.who = w)
                => /\ agents[w].pc = "buy" /\ agents'[w].pc = "inner"
                   /\ ev'.ret = "ok"
                        => agents'[w].purchases = agents[w].purchases + 1
            /\ agents'[w].purchases <= agents'[w].max_airframes
            /\ agents'[w].pc = "done"
                => agents'[w].purchases = agents'[w].max_airframes
            /\ (agents[w].purchases = agents[w].max_airframes /\ ev'.who = w)
                => /\ ev'.op \in {"start", "inner", "return"}
                   /\ agents'[w].driver = agents[w].driver
            /\ agents'[w].max_airframes = 0 => agents'[w].driver = 0]_vars
    /\ (\A w \in 1..MaxTasks : Open(w) ~> Bought(w)) => <>[]AllDone

\* C11 witness: a worker of quota 2 has returned with two purchases counted,
\* next to a worker of quota 0 that returned without a session.
C11_Witness ==
    /\ mode = "saturation"
    /\ \E w \in Workers :
        /\ agents[w].pc = "done" /\ agents[w].max_airframes = 2
        /\ agents[w].purchases = 2
    /\ \E w \in Workers :
        /\ agents[w].pc = "done" /\ agents[w].max_airframes = 0
        /\ agents[w].driver = 0

\* C12: a worker makes a purchase call in a pass only with the filter applied
\* for its type and a first-page table of at least one data row; a pass whose
\* filter call returned None or a table of zero data rows ends there, with no
\* purchase call and the counter as it was.
C12_PassNeedsRows ==
    [][\A w \in Workers : w \in 1..Len(agents') =>
        /\ (ev'.op = "purchase" /\ ev'.who = w)
            => /\ sess[agents[w].driver].filter = agents[w].aircraft_type
               /\ Len(agents[w].page) >= 1
        /\ (/\ ev'.op = "get_lease_page" /\ ev'.who = w
            /\ \/ ev'.ret = "none"
               \/ ev'.ret = "tables" /\ agents'[w].page = <<>>)
            => /\ agents'[w].pc = "inner"
               /\ agents'[w].purchases = agents[w].purchases]_vars

(* ------------------------------ monitor mode ----------------------------- *)
\* C13: when a collected page holds a non-numeric "Hours flown" value, the
\* failure of the coercion stays within the pass of that rule: the supervisor
\* keeps its session and stands at the next rule, no purchase call made.
C13_MalformedConfined ==
    [][(mode = "monitor" /\ ev'.op = "build_table_index" /\ ev'.ret = "raise")
        => /\ pc' = "rule" /\ i' = i + 1
           /\ driver' = driver /\ nsessions' = nsessions
           /\ desired_leases' = desired_leases
           /\ calls' = <<>>
           /\ airframe_count' = airframe_count]_vars

\* C14: the purchase call for the row of identity (p, r) is made with page
\* argument p and row argument r + 1, and it activates the row link on the
\* page the row was collected from.
C14_PurchaseTarget ==
    [][(mode = "monitor" /\ ev'.op = "purchase" /\ ev'.ret = "ok")
        => /\ calls'[Len(calls')].pagenum = df[j].pagenum
           /\ calls'[Len(calls')].rownum = df[j].idx + 1
           /\ ev'.landed = entry.visited[df[j].pagenum + 1]]_vars

C17_AttemptedOnce ==
    \A a, b \in 1..Len(calls) :
        a # b => ~(calls[a].page = calls[b].page /\ calls[a].idx = calls[b].idx)

\* C18: every purchase call of a rule is made while the browser shows the
\* listing filtered to the rule's type: nothing has reset the leases page
\* between the filter click and the activation of the row link.
C18_PurchaseWhileFiltered ==
    [][(mode = "monitor" /\ ev'.op = "purchase")
        => sess[driver].filter = row.type]_vars

(* ------------------------------- sessions -------------------------------- *)
\* the BrowserAgent the loop that made the last call is bound to: main()'s
\* driver in monitor mode, the worker's driver in saturation mode
LoopDriver ==
    IF mode = "monitor" THEN driver
    ELSE IF ev'.who \in Workers THEN agents[ev'.who].driver ELSE 0

\* C19: when a loop constructs a new session, the browser of the session it
\* held before is gone, so each loop has one live browser at most.
C19_OneLiveContext ==
    [][(ev'.op = "construct" /\ ev'.ret = "ok" /\ LoopDriver # 0)
        => sess[LoopDriver].status = "crashed"]_vars

\* C20: goto_leases, the filter and collection calls and the purchase call
\* are made only on the session the loop is bound to, and only after
\* login_workflow has returned on that very session, which leaves it on the
\* leases page; a session becomes usable in no other way; and after a
\* login_workflow that raised, the session stays unusable and the loop stands
\* at the construction of a new one.
C20_OnlyReadySessions ==
    [][/\ ev'.op \in {"goto_leases", "get_leases", "get_lease_page",
                      "build_table_index", "purchase"}
            => /\ LoopDriver # 0
               /\ sess[LoopDriver].ready
               /\ mode = "monitor" => driver' = driver
               /\ mode = "saturation"
                    => agents'[ev'.who].driver = agents[ev'.who].driver
       /\ \A s \in 1..MaxSessions :
            /\ (sess'[s].ready /\ ~sess[s].ready)
                => /\ ev'.op = "login" /\ ev'.ret = "ok" /\ s = LoopDriver
                   /\ sess[s].status = "new"
                   /\ sess'[s].status = "leases"
            /\ sess'[s].status \in {"new", "authenticated", "popup"}
                => ~sess'[s].ready
       /\ (ev'.op = "login" /\ ev'.ret = "raise")
            => /\ ~sess'[LoopDriver].ready
               /\ mode = "monitor" => pc' = "new_session"
               /\ mode = "saturation" => agents'[ev'.who].pc = "outer"]_vars

\* C20 witness: the first session was given up and a purchase has been made
\* on the second one, on which login_workflow had returned.
C20_Witness ==
    /\ mode = "monitor" /\ ev.op = "purchase" /\ ev.ret = "ok"
    /\ driver = 2 /\ sess[2].ready
    /\ sess[1].status = "unreferenced"

====
